---- MODULE Spec2Model ----
(***************************************************************************)
(* Model of the MQTT codec in messages.go: fixed header, remaining-length  *)
(* field, primitive fields and the per-message payload codecs.  Octets are *)
(* numbers in 0..255, strings and buffers are sequences of octets, a sink  *)
(* (io.Writer) is the log of the chunks written to it, and a source        *)
(* (io.Reader) is the sequence of octets not yet read.                     *)
(***************************************************************************)
EXTENDS Integers, Sequences, FiniteSets, TLC

VARIABLES
  pc,      \* "idle", "encoded" (a message was handed to Encode), "done"
  op,      \* the operation that ran last
  in,      \* the arguments of that operation
  sent,    \* the message value handed to Encode
  msg,     \* the message value a Decode was called on (after the call),
           \* or the one DecodeRead returned
  sink,    \* the io.Writer Encode wrote to
  source,  \* the io.Reader after the decode
  ret      \* the values the operation returned

vars == <<pc, op, in, sent, msg, sink, source, ret>>

(* ------------------------------ bounds -------------------------------- *)

\* longest text field / raw data drawn for a message
MaxStrLen == 1
\* longest Topics / TopicsQos list drawn for a message
MaxTopics == 2
\* most octets following a message in a source
MaxTrail == 1
\* most octets cut off the end of a payload handed to a Decode
MaxCut == 2
\* longest octet sequence handed to decodeLength
MaxStream == 4

(* --------------------------- small helpers ---------------------------- *)

RECURSIVE SeqsUpTo(_, _)
SeqsUpTo(S, n) ==
  IF n = 0 THEN {<<>>}
  ELSE LET shorter == SeqsUpTo(S, n - 1)
       IN  shorter \cup {Append(s, x) : s \in {t \in shorter : Len(t) = n - 1}, x \in S}

RECURSIVE Flatten(_)
Flatten(chunks) ==
  IF chunks = <<>> THEN <<>> ELSE Head(chunks) \o Flatten(Tail(chunks))

Min(a, b) == IF a < b THEN a ELSE b

Prefix(s, n) == SubSeq(s, 1, Min(n, Len(s)))

Drop(s, n) == SubSeq(s, Min(n, Len(s)) + 1, Len(s))

(* ------------------------- types and constants ------------------------ *)

MsgConnect     == 1
MsgConnAck     == 2
MsgPublish     == 3
MsgPubAck      == 4
MsgPubRec      == 5
MsgPubRel      == 6
MsgPubComp     == 7
MsgSubscribe   == 8
MsgSubAck      == 9
MsgUnsubscribe == 10
MsgUnsubAck    == 11
MsgPingReq     == 12
MsgPingResp    == 13
MsgDisconnect  == 14
msgTypeFirstInvalid == 15

MessageType_IsValid(mt) == mt >= MsgConnect /\ mt < msgTypeFirstInvalid

QosLevel_IsValid(qos) == qos < 3

QosLevel_HasId(qos) == qos = 1 \/ qos = 2

ReturnCode_IsValid(rc) == rc >= 0 /\ rc < 6

boolToByte(b) == IF b THEN 1 ELSE 0

AckKinds == {"PubAck", "PubRec", "PubRel", "PubComp", "UnsubAck"}

EmptyKinds == {"PingReq", "PingResp", "Disconnect"}

KindType(k) ==
  CASE k = "Connect"     -> MsgConnect
    [] k = "ConnAck"     -> MsgConnAck
    [] k = "Publish"     -> MsgPublish
    [] k = "PubAck"      -> MsgPubAck
    [] k = "PubRec"      -> MsgPubRec
    [] k = "PubRel"      -> MsgPubRel
    [] k = "PubComp"     -> MsgPubComp
    [] k = "Subscribe"   -> MsgSubscribe
    [] k = "SubAck"      -> MsgSubAck
    [] k = "Unsubscribe" -> MsgUnsubscribe
    [] k = "UnsubAck"    -> MsgUnsubAck
    [] k = "PingReq"     -> MsgPingReq
    [] k = "PingResp"    -> MsgPingResp
    [] k = "Disconnect"  -> MsgDisconnect

TypeKind(mt) == CHOOSE k \in {"Connect", "ConnAck", "Publish", "Subscribe", "SubAck",
                              "Unsubscribe"} \cup AckKinds \cup EmptyKinds : KindType(k) = mt

\* the zero value of Header
ZeroHeader == [DupFlag |-> FALSE, Retain |-> FALSE, QosLevel |-> 0]

(* ------------------------------ the sink ------------------------------ *)

\* an io.Writer: the chunks accepted so far, the number of Write calls, and
\* the call (if any) on which the sink reports an error
NewSink(failAt) == [chunks |-> <<>>, calls |-> 0, failAt |-> failAt]

\* w.Write(p): one call; it is accepted whole or refused with an error
Write(w, p) ==
  IF w.calls + 1 = w.failAt
    THEN [w |-> [w EXCEPT !.calls = @ + 1], err |-> "ioError"]
    ELSE [w |-> [w EXCEPT !.calls = @ + 1, !.chunks = Append(@, p)], err |-> "nil"]

(* ----------------------- primitive field encoders ---------------------- *)

setUint8(val, buf) == Append(buf, val % 256)

setUint16(val, buf) == buf \o <<(val \div 256) % 256, val % 256>>

setString(val, buf) == setUint16(Len(val), buf) \o val

RECURSIVE encodeLengthLoop(_, _)
encodeLengthLoop(length, buf) ==
  IF length > 0
    THEN LET digit == length % 128
             rest  == length \div 128
         IN  encodeLengthLoop(rest, Append(buf, IF rest > 0 THEN digit + 128 ELSE digit))
    ELSE buf

encodeLength(length, buf) ==
  IF length = 0 THEN Append(buf, 0) ELSE encodeLengthLoop(length, buf)

(* --------------------------- fixed header ----------------------------- *)

Header_Encode(hdr, w, msgType, remainingLength) ==
  IF ~QosLevel_IsValid(hdr.QosLevel) THEN [w |-> w, err |-> "badQosError"]
  ELSE IF ~MessageType_IsValid(msgType) THEN [w |-> w, err |-> "badMsgTypeError"]
  ELSE LET val == ((msgType * 16) % 256) + (boolToByte(hdr.DupFlag) * 8)
                  + (hdr.QosLevel * 2) + boolToByte(hdr.Retain)
           buf == encodeLength(remainingLength, <<val>>)
       IN  Write(w, buf)

\* writeMessage that goes on to write the payload whatever the header write returned
writeMessage_noCheck(w, hdr, payloadBuf) ==
  LET h == Header_Encode(hdr, w, MsgConnect, Len(payloadBuf))
  IN  IF h.err \in {"badQosError", "badMsgTypeError"} THEN h ELSE Write(h.w, payloadBuf)

writeMessage(w, hdr, payloadBuf) ==
  LET h == Header_Encode(hdr, w, MsgConnect, Len(payloadBuf))
  IN  IF h.err # "nil" THEN h ELSE Write(h.w, payloadBuf)

(* -------------------------- payload encoders -------------------------- *)

Connect_flags(m) ==
  (boolToByte(m.UsernameFlag) * 128) + (boolToByte(m.PasswordFlag) * 64)
  + (boolToByte(m.WillRetain) * 32) + (m.WillQos * 8)
  + (boolToByte(m.WillFlag) * 4) + (boolToByte(m.CleanSession) * 2)

\* Connect payload with the password written before the username
Connect_payload_swapped(m) ==
  LET b1 == setString(m.ProtocolName, <<>>)
      b2 == setUint8(m.ProtocolVersion, b1)
      b3 == Append(b2, Connect_flags(m))
      b4 == setUint16(m.KeepAliveTimer, b3)
      b5 == setString(m.ClientId, b4)
      b6 == IF m.WillFlag THEN setString(m.WillMessage, setString(m.WillTopic, b5)) ELSE b5
      b7 == IF m.PasswordFlag THEN setString(m.Password, b6) ELSE b6
  IN  IF m.UsernameFlag THEN setString(m.Username, b7) ELSE b7

Connect_payload(m) ==
  LET b1 == setString(m.ProtocolName, <<>>)
      b2 == setUint8(m.ProtocolVersion, b1)
      b3 == Append(b2, Connect_flags(m))
      b4 == setUint16(m.KeepAliveTimer, b3)
      b5 == setString(m.ClientId, b4)
      b6 == IF m.WillFlag THEN setString(m.WillMessage, setString(m.WillTopic, b5)) ELSE b5
      b7 == IF m.UsernameFlag THEN setString(m.Username, b6) ELSE b6
  IN  IF m.PasswordFlag THEN setString(m.Password, b7) ELSE b7

Connect_Encode(m, w) ==
  IF ~QosLevel_IsValid(m.WillQos) THEN [w |-> w, err |-> "badWillQosError"]
  ELSE writeMessage(w, m.Header, Connect_payload(m))

ConnAck_payload(m) == setUint8(m.ReturnCode, <<0>>)

ConnAck_Encode(m, w) == writeMessage(w, m.Header, ConnAck_payload(m))

Publish_payload(m) ==
  LET b1 == setString(m.TopicName, <<>>)
      b2 == IF QosLevel_HasId(m.Header.QosLevel) THEN setUint16(m.MessageId, b1) ELSE b1
  IN  b2 \o m.Data

Publish_Encode(m, w) == writeMessage(w, m.Header, Publish_payload(m))

\* the loop of Subscribe.Encode from index i (1-based here) on
RECURSIVE Subscribe_loop(_, _, _)
Subscribe_loop(m, i, buf) ==
  IF i > Len(m.Topics) THEN buf
  ELSE Subscribe_loop(m, i + 1, setUint8(m.TopicsQos[i], setString(m.Topics[i], buf)))

Subscribe_payload(m) ==
  Subscribe_loop(m, 1, IF QosLevel_HasId(m.Header.QosLevel)
                         THEN setUint16(m.MessageId, <<>>) ELSE <<>>)

\* msg.TopicsQos[i] with i beyond the list is an index-out-of-range panic,
\* raised while the payload is built; Encode installs no recover
Subscribe_Encode(m, w) ==
  IF Len(m.Topics) > Len(m.TopicsQos) THEN [w |-> w, err |-> "panic"]
  ELSE writeMessage(w, m.Header, Subscribe_payload(m))

RECURSIVE SubAck_loop(_, _, _)
SubAck_loop(m, i, buf) ==
  IF i > Len(m.TopicsQos) THEN buf
  ELSE SubAck_loop(m, i + 1, setUint8(m.TopicsQos[i], buf))

SubAck_payload(m) == SubAck_loop(m, 1, setUint16(m.MessageId, <<>>))

SubAck_Encode(m, w) == writeMessage(w, m.Header, SubAck_payload(m))

RECURSIVE Unsubscribe_loop(_, _, _)
Unsubscribe_loop(m, i, buf) ==
  IF i > Len(m.Topics) THEN buf
  ELSE Unsubscribe_loop(m, i + 1, setString(m.Topics[i], buf))

Unsubscribe_payload(m) ==
  Unsubscribe_loop(m, 1, IF QosLevel_HasId(m.Header.QosLevel)
                           THEN setUint16(m.MessageId, <<>>) ELSE <<>>)

Unsubscribe_Encode(m, w) == writeMessage(w, m.Header, Unsubscribe_payload(m))

AckCommon_payload(m) == setUint16(m.MessageId, <<>>)

AckCommon_Encode(m, w) == writeMessage(w, m.Header, AckCommon_payload(m))

\* PingReq, PingResp, Disconnect: the fixed header alone, remaining length 0
Empty_Encode(m, w) == Header_Encode(m.Header, w, KindType(m.kind), 0)

\* dispatch of the Message interface's Encode on the dynamic type
Encode(m, w) ==
  CASE m.kind = "Connect"     -> Connect_Encode(m, w)
    [] m.kind = "ConnAck"     -> ConnAck_Encode(m, w)
    [] m.kind = "Publish"     -> Publish_Encode(m, w)
    [] m.kind = "Subscribe"   -> Subscribe_Encode(m, w)
    [] m.kind = "SubAck"      -> SubAck_Encode(m, w)
    [] m.kind = "Unsubscribe" -> Unsubscribe_Encode(m, w)
    [] m.kind \in AckKinds    -> AckCommon_Encode(m, w)
    [] m.kind \in EmptyKinds  -> Empty_Encode(m, w)

(* ----------------------- primitive field decoders ---------------------- *)

\* io.ReadFull(r, buf) with len(buf) = n: the octets read, the source left,
\* and io.EOF (nothing read) or io.ErrUnexpectedEOF (some read) when short
ReadFull(r, n) ==
  IF Len(r) >= n THEN [data |-> Prefix(r, n), r |-> Drop(r, n), err |-> "nil"]
  ELSE IF Len(r) = 0 THEN [data |-> <<>>, r |-> r, err |-> "EOF"]
  ELSE [data |-> r, r |-> <<>>, err |-> "ErrUnexpectedEOF"]

\* A decoding position: the source r, the budget rem (packetRemaining), the
\* pending fault err ("nil" when none), the value v of the last read and the
\* values vals kept so far.  A read at a position that already carries a
\* fault does nothing: the fault is a panic unwinding to the deferred
\* recoverError, which returns it as the error.
Start(r, packetRemaining) ==
  [r |-> r, rem |-> packetRemaining, err |-> "nil", v |-> <<>>, vals |-> <<>>]

\* the position after io.ReadFull returned rd for a field of n octets
AfterRead(st, rd, n) ==
  IF rd.err # "nil" THEN [st EXCEPT !.r = rd.r, !.err = rd.err]
  ELSE [st EXCEPT !.r = rd.r, !.rem = @ - n, !.v = rd.data]

\* the octets just read, as a big-endian number
AsUint(st) ==
  IF st.err # "nil" THEN st
  ELSE [st EXCEPT !.v = IF Len(@) = 1 THEN @[1] ELSE (@[1] * 256) + @[2]]

getUint8(st) ==
  IF st.err # "nil" THEN st
  ELSE IF st.rem < 1 THEN [st EXCEPT !.err = "dataExceedsPacketError"]
  ELSE AsUint(AfterRead(st, ReadFull(st.r, 1), 1))

getUint16(st) ==
  IF st.err # "nil" THEN st
  ELSE IF st.rem < 2 THEN [st EXCEPT !.err = "dataExceedsPacketError"]
  ELSE AsUint(AfterRead(st, ReadFull(st.r, 2), 2))

\* getString once its length prefix has been read at position l
getStringBody(l) ==
  IF l.err # "nil" THEN l
  ELSE IF l.rem < l.v THEN [l EXCEPT !.err = "dataExceedsPacketError"]
  ELSE AfterRead(l, ReadFull(l.r, l.v), l.v)

getString(st) == getStringBody(getUint16(st))

\* the value just read is the next one the decoder holds on to
Keep(st) == IF st.err # "nil" THEN st ELSE [st EXCEPT !.vals = Append(@, st.v)]

\* the remaining-length field: at most four chunks, low seven bits first
RECURSIVE decodeLengthLoop(_, _, _, _)
decodeLengthLoop(r, i, mult, v) ==
  IF i >= 4 THEN [v |-> 0, r |-> r, err |-> "badLengthEncodingError"]
  ELSE LET rd == ReadFull(r, 1)
       IN  IF rd.err # "nil" THEN [v |-> 0, r |-> rd.r, err |-> rd.err]
           ELSE LET b  == rd.data[1]
                    nv == v + ((b % 128) * mult)
                IN  IF b < 128 THEN [v |-> nv, r |-> rd.r, err |-> "nil"]
                    ELSE decodeLengthLoop(rd.r, i + 1, mult * 128, nv)

decodeLength(r) == decodeLengthLoop(r, 0, 1, 0)

(* --------------------------- fixed header ----------------------------- *)

\* Header.Decode that hands decodeLength the source with the first octet still in it
Header_Decode_rewound(hdr, r) ==
  LET rd == ReadFull(r, 1)
  IN  IF rd.err # "nil"
        THEN [hdr |-> hdr, msgType |-> 0, remainingLength |-> 0, r |-> rd.r, err |-> rd.err]
        ELSE LET byte1 == rd.data[1]
                 h     == [DupFlag  |-> (byte1 \div 8) % 2 > 0,
                           QosLevel |-> (byte1 \div 2) % 4,
                           Retain   |-> byte1 % 2 > 0]
                 dl    == decodeLength(r)
             IN  [hdr |-> h, msgType |-> byte1 \div 16, remainingLength |-> dl.v,
                  r |-> dl.r, err |-> dl.err]

Header_Decode(hdr, r) ==
  LET rd == ReadFull(r, 1)
  IN  IF rd.err # "nil"
        THEN [hdr |-> hdr, msgType |-> 0, remainingLength |-> 0, r |-> rd.r, err |-> rd.err]
        ELSE LET byte1 == rd.data[1]
                 h     == [DupFlag  |-> (byte1 \div 8) % 2 > 0,
                           QosLevel |-> (byte1 \div 2) % 4,
                           Retain   |-> byte1 % 2 > 0]
                 dl    == decodeLength(rd.r)
             IN  [hdr |-> h, msgType |-> byte1 \div 16, remainingLength |-> dl.v,
                  r |-> dl.r, err |-> dl.err]

(* -------------------------- payload decoders -------------------------- *)
(* Each returns the message value after the call, the source left, the    *)
(* budget left and the returned error.  hdr is the header argument.       *)

Result(m, st) == [msg |-> m, r |-> st.r, rem |-> st.rem, err |-> st.err]

\* the composite literal assigned to *msg from the five fixed fields
Connect_fixed(vals) ==
  [kind |-> "Connect", Header |-> ZeroHeader,
   ProtocolName    |-> vals[1],
   ProtocolVersion |-> vals[2],
   UsernameFlag    |-> (vals[3] \div 128) % 2 > 0,
   PasswordFlag    |-> (vals[3] \div 64) % 2 > 0,
   WillRetain      |-> (vals[3] \div 32) % 2 > 0,
   WillQos         |-> (vals[3] \div 8) % 4,
   WillFlag        |-> (vals[3] \div 4) % 2 > 0,
   CleanSession    |-> (vals[3] \div 2) % 2 > 0,
   KeepAliveTimer  |-> vals[4],
   ClientId        |-> vals[5],
   WillTopic |-> <<>>, WillMessage |-> <<>>, Username |-> <<>>, Password |-> <<>>]

\* the fields the flags call for, in the order they are read
Connect_optional(m) ==
  (IF m.WillFlag THEN <<"WillTopic", "WillMessage">> ELSE <<>>)
  \o (IF m.UsernameFlag THEN <<"Username">> ELSE <<>>)
  \o (IF m.PasswordFlag THEN <<"Password">> ELSE <<>>)

RECURSIVE getStrings(_, _)
getStrings(st, k) == IF k = 0 THEN st ELSE getStrings(Keep(getString(st)), k - 1)

\* every optional field read before a fault (if any) has been assigned
Connect_assign(m, fields, st) ==
  Result([f \in DOMAIN m |->
            IF \E i \in 1..(Len(st.vals) - 5) : fields[i] = f
              THEN st.vals[5 + (CHOOSE i \in 1..(Len(st.vals) - 5) : fields[i] = f)]
              ELSE m[f]], st)

Connect_rest(m1, st) ==
  Connect_assign(m1, Connect_optional(m1), getStrings(st, Len(Connect_optional(m1))))

Connect_store(m, st) ==
  IF st.err # "nil" THEN Result(m, st) ELSE Connect_rest(Connect_fixed(st.vals), st)

Connect_Decode(m, r, hdr, packetRemaining) ==
  Connect_store(m,
    Keep(getString(Keep(getUint16(Keep(getUint8(Keep(getUint8(Keep(getString(
      Start(r, packetRemaining))))))))))))

ConnAck_store(m, st) ==
  IF st.err # "nil" THEN Result(m, st)
  ELSE [msg |-> [m EXCEPT !.ReturnCode = st.v], r |-> st.r, rem |-> st.rem,
        err |-> IF ~ReturnCode_IsValid(st.v) THEN "badReturnCodeError" ELSE "nil"]

ConnAck_Decode(m, r, hdr, packetRemaining) ==
  ConnAck_store(m, getUint8(getUint8(Start(r, packetRemaining))))

\* msg.Data is allocated zero-filled, packetRemaining long, then filled by rd
Publish_data(m, st, rd) ==
  [msg |-> [m EXCEPT !.Data = rd.data \o [i \in 1..(st.rem - Len(rd.data)) |-> 0]],
   r |-> rd.r, rem |-> st.rem, err |-> rd.err]

\* the fields assigned one by one as far as the reads got
Publish_store(m, st) ==
  IF Len(st.vals) = 0 THEN Result(m, st)
  ELSE IF st.err # "nil" THEN Result([m EXCEPT !.TopicName = st.vals[1]], st)
  ELSE Publish_data([m EXCEPT !.TopicName = st.vals[1],
                              !.MessageId = IF Len(st.vals) > 1 THEN st.vals[2] ELSE @],
                    st, ReadFull(st.r, st.rem))

Publish_id(m, st) ==
  IF QosLevel_HasId(m.Header.QosLevel) THEN Keep(getUint16(st)) ELSE st

Publish_Decode(m, r, hdr, packetRemaining) ==
  Publish_store(m, Publish_id(m, Keep(getString(Start(r, packetRemaining)))))

\* the elements of s at positions from, from + step, ...
Every(s, from, step) ==
  [i \in 1..((Len(s) - from + step) \div step) |-> s[from + ((i - 1) * step)]]

\* the loop of Subscribe.Decode: (topic, qos) pairs while the budget is positive
RECURSIVE Subscribe_pairs(_)
Subscribe_pairs(st) ==
  IF st.err # "nil" \/ st.rem <= 0 THEN st
  ELSE Subscribe_pairs(Keep(getUint8(Keep(getString(st)))))

Subscribe_id(m, st) ==
  IF QosLevel_HasId(m.Header.QosLevel) THEN Keep(getUint16(st)) ELSE st

\* ids is 1 when the identifier was read first, else 0
Subscribe_store(m, ids, st) ==
  IF Len(st.vals) < ids THEN Result(m, st)
  ELSE IF st.err # "nil"
    THEN Result([m EXCEPT !.MessageId = IF ids = 1 THEN st.vals[1] ELSE @], st)
  ELSE Result([m EXCEPT !.MessageId = IF ids = 1 THEN st.vals[1] ELSE @,
                        !.Topics = Every(st.vals, ids + 1, 2),
                        !.TopicsQos = Every(st.vals, ids + 2, 2)], st)

Subscribe_Decode(m, r, hdr, packetRemaining) ==
  Subscribe_store(m, IF QosLevel_HasId(m.Header.QosLevel) THEN 1 ELSE 0,
                  Subscribe_pairs(Subscribe_id(m, Start(r, packetRemaining))))

\* the low two bits of the octet just read
Granted(st) == IF st.err # "nil" THEN st ELSE [st EXCEPT !.v = @ % 4]

RECURSIVE SubAck_granted(_)
SubAck_granted(st) ==
  IF st.err # "nil" \/ st.rem <= 0 THEN st
  ELSE SubAck_granted(Keep(Granted(getUint8(st))))

SubAck_store(m, st) ==
  IF Len(st.vals) = 0 THEN Result(m, st)
  ELSE IF st.err # "nil" THEN Result([m EXCEPT !.MessageId = st.vals[1]], st)
  ELSE Result([m EXCEPT !.MessageId = st.vals[1], !.TopicsQos = Tail(st.vals)], st)

SubAck_Decode(m, r, hdr, packetRemaining) ==
  SubAck_store(m, SubAck_granted(Keep(getUint16(Start(r, packetRemaining)))))

RECURSIVE Unsubscribe_topics(_)
Unsubscribe_topics(st) ==
  IF st.err # "nil" \/ st.rem <= 0 THEN st
  ELSE Unsubscribe_topics(Keep(getString(st)))

Unsubscribe_id(m, st) ==
  IF m.Header.QosLevel = 1 \/ m.Header.QosLevel = 2 THEN Keep(getUint16(st)) ELSE st

Unsubscribe_store(m, ids, st) ==
  IF Len(st.vals) < ids THEN Result(m, st)
  ELSE IF st.err # "nil"
    THEN Result([m EXCEPT !.MessageId = IF ids = 1 THEN st.vals[1] ELSE @], st)
  ELSE Result([m EXCEPT !.MessageId = IF ids = 1 THEN st.vals[1] ELSE @,
                        !.Topics = Every(st.vals, ids + 1, 1)], st)

Unsubscribe_Decode(m, r, hdr, packetRemaining) ==
  Unsubscribe_store(m, IF m.Header.QosLevel = 1 \/ m.Header.QosLevel = 2 THEN 1 ELSE 0,
                    Unsubscribe_topics(Unsubscribe_id(m, Start(r, packetRemaining))))

AckCommon_store(m, st) ==
  IF st.err # "nil" THEN Result(m, st) ELSE Result([m EXCEPT !.MessageId = st.v], st)

AckCommon_Decode(m, r, hdr, packetRemaining) ==
  AckCommon_store(m, getUint16(Start(r, packetRemaining)))

\* PingReq, PingResp, Disconnect: no payload, nothing is read
Empty_Decode(m, r, hdr, packetRemaining) ==
  [msg |-> m, r |-> r, rem |-> packetRemaining, err |-> "nil"]

\* dispatch of the Message interface's Decode on the dynamic type
Decode(m, r, hdr, packetRemaining) ==
  CASE m.kind = "Connect"     -> Connect_Decode(m, r, hdr, packetRemaining)
    [] m.kind = "ConnAck"     -> ConnAck_Decode(m, r, hdr, packetRemaining)
    [] m.kind = "Publish"     -> Publish_Decode(m, r, hdr, packetRemaining)
    [] m.kind = "Subscribe"   -> Subscribe_Decode(m, r, hdr, packetRemaining)
    [] m.kind = "SubAck"      -> SubAck_Decode(m, r, hdr, packetRemaining)
    [] m.kind = "Unsubscribe" -> Unsubscribe_Decode(m, r, hdr, packetRemaining)
    [] m.kind \in AckKinds    -> AckCommon_Decode(m, r, hdr, packetRemaining)
    [] m.kind \in EmptyKinds  -> Empty_Decode(m, r, hdr, packetRemaining)

(* ------------------------------ dispatch ------------------------------ *)

\* the zero value of each message type
NewMessage(k) ==
  CASE k = "Connect" ->
         [kind |-> k, Header |-> ZeroHeader, ProtocolName |-> <<>>, ProtocolVersion |-> 0,
          WillRetain |-> FALSE, WillFlag |-> FALSE, CleanSession |-> FALSE, WillQos |-> 0,
          KeepAliveTimer |-> 0, ClientId |-> <<>>, WillTopic |-> <<>>, WillMessage |-> <<>>,
          UsernameFlag |-> FALSE, PasswordFlag |-> FALSE, Username |-> <<>>, Password |-> <<>>]
    [] k = "ConnAck"     -> [kind |-> k, Header |-> ZeroHeader, ReturnCode |-> 0]
    [] k = "Publish"     -> [kind |-> k, Header |-> ZeroHeader, TopicName |-> <<>>,
                             MessageId |-> 0, Data |-> <<>>]
    [] k = "Subscribe"   -> [kind |-> k, Header |-> ZeroHeader, MessageId |-> 0,
                             Topics |-> <<>>, TopicsQos |-> <<>>]
    [] k = "SubAck"      -> [kind |-> k, Header |-> ZeroHeader, MessageId |-> 0,
                             TopicsQos |-> <<>>]
    [] k = "Unsubscribe" -> [kind |-> k, Header |-> ZeroHeader, MessageId |-> 0,
                             Topics |-> <<>>]
    [] k \in AckKinds    -> [kind |-> k, Header |-> ZeroHeader, MessageId |-> 0]
    [] k \in EmptyKinds  -> [kind |-> k, Header |-> ZeroHeader]

NoMessage == [kind |-> "nil"]

DecodeRead(r) ==
  LET h == Header_Decode(ZeroHeader, r)
  IN  IF h.err # "nil" THEN [msg |-> NoMessage, r |-> h.r, err |-> h.err]
      ELSE IF ~MessageType_IsValid(h.msgType)
        THEN [msg |-> NoMessage, r |-> h.r, err |-> "badMsgTypeError"]
      ELSE LET d == Decode(NewMessage(TypeKind(h.msgType)), h.r, h.hdr, h.remainingLength)
           IN  IF d.err # "nil" THEN [msg |-> NoMessage, r |-> d.r, err |-> d.err]
               ELSE [msg |-> d.msg, r |-> d.r, err |-> "nil"]

(* ------------------------------- inputs ------------------------------- *)

Headers == [DupFlag : BOOLEAN, Retain : BOOLEAN, QosLevel : 0..3]

\* headers a Decode finds in the message value it is called on
PriorHeaders == {h \in Headers : ~h.DupFlag /\ ~h.Retain /\ h.QosLevel < 3}

Chars == {97, 98}

Strs == SeqsUpTo(Chars, MaxStrLen)

TopicNames == {<<>>, <<97>>}

MessageIds == {0, 258}

RequestedQos == {0, 2}

\* the Connect of the repository's test, with header h
TestConnect(h) ==
  [kind |-> "Connect", Header |-> h,
   ProtocolName    |-> <<77, 81, 73, 115, 100, 112>>,
   ProtocolVersion |-> 3,
   UsernameFlag    |-> TRUE,
   PasswordFlag    |-> TRUE,
   WillRetain      |-> FALSE,
   WillQos         |-> 1,
   WillFlag        |-> TRUE,
   CleanSession    |-> TRUE,
   KeepAliveTimer  |-> 10,
   ClientId        |-> <<120, 105, 120, 105, 104, 97, 104, 97>>,
   WillTopic       |-> <<116, 111, 112, 105, 99>>,
   WillMessage     |-> <<109, 101, 115, 115, 97, 103, 101>>,
   Username        |-> <<110, 97, 109, 101>>,
   Password        |-> <<112, 119, 100>>]

\* Connect values whose text fields are set exactly when their flag is
ConnectMsgs ==
  {TestConnect(h) : h \in Headers} \cup
  {[kind |-> "Connect", Header |-> h,
    ProtocolName    |-> <<77, 81>>,
    ProtocolVersion |-> 3,
    UsernameFlag    |-> f[1],
    PasswordFlag    |-> f[2],
    WillFlag        |-> f[3],
    WillRetain      |-> f[4],
    CleanSession    |-> ~f[4],
    WillQos         |-> wq,
    KeepAliveTimer  |-> 10,
    ClientId        |-> t,
    WillTopic       |-> IF f[3] THEN t ELSE <<>>,
    WillMessage     |-> IF f[3] THEN <<98>> ELSE <<>>,
    Username        |-> IF f[1] THEN t ELSE <<>>,
    Password        |-> IF f[2] THEN <<98>> ELSE <<>>] :
   h \in Headers, f \in [1..4 -> BOOLEAN], wq \in 0..3, t \in Strs}

ConnAckMsgs == [kind : {"ConnAck"}, Header : Headers, ReturnCode : 0..6]

PublishMsgs == [kind : {"Publish"}, Header : Headers, TopicName : Strs,
                MessageId : MessageIds, Data : Strs]

AckMsgs == [kind : AckKinds, Header : Headers, MessageId : MessageIds]

SubscribeMsgs == [kind : {"Subscribe"}, Header : Headers, MessageId : MessageIds,
                  Topics : SeqsUpTo(TopicNames, MaxTopics),
                  TopicsQos : SeqsUpTo(RequestedQos, MaxTopics)]

SubAckMsgs == [kind : {"SubAck"}, Header : Headers, MessageId : MessageIds,
               TopicsQos : SeqsUpTo(0..2, MaxTopics)]

UnsubscribeMsgs == [kind : {"Unsubscribe"}, Header : Headers, MessageId : MessageIds,
                    Topics : SeqsUpTo(TopicNames, MaxTopics)]

EmptyMsgs == [kind : EmptyKinds, Header : Headers]

\* the sink refuses no write (0), the first or the second
FailAts == 0..2

TrailOctets == {0}

Trails == SeqsUpTo(TrailOctets, MaxTrail)

\* the sources a payload Decode is tried on: a payload with octets cut off
\* its end or followed by further octets, and budgets around its length
Sources(payload) ==
  {payload \o t : t \in Trails} \cup
  {Prefix(payload, Len(payload) - c) : c \in 0..Min(MaxCut, Len(payload))}

Budgets(payload) == {n \in (Len(payload) - 1)..(Len(payload) + 1) : n >= 0}

ChunkOctets == {0, 1, 127, 128, 255}

ChunkStreams == SeqsUpTo(ChunkOctets, MaxStream)

FirstOctets == {0, 16, 59, 240}

(* ------------------------------- actions ------------------------------ *)

Init ==
  /\ pc = "idle"
  /\ op = "none"
  /\ in = [kind |-> "none"]
  /\ sent = NoMessage
  /\ msg = NoMessage
  /\ sink = NewSink(0)
  /\ source = <<>>
  /\ ret = [err |-> "nil"]

\* m.Encode(w) on a fresh sink that fails on write number failAt
EncodeCall(name, m, failAt) ==
  LET e == Encode(m, NewSink(failAt))
  IN  /\ pc' = "encoded"
      /\ op' = name
      /\ in' = [msg |-> m, failAt |-> failAt]
      /\ sent' = m
      /\ sink' = e.w
      /\ ret' = [err |-> e.err]
      /\ UNCHANGED <<msg, source>>

ConnectEncode == pc = "idle" /\ \E m \in ConnectMsgs, f \in FailAts : EncodeCall("Connect.Encode", m, f)

ConnAckEncode == pc = "idle" /\ \E m \in ConnAckMsgs, f \in FailAts : EncodeCall("ConnAck.Encode", m, f)

PublishEncode == pc = "idle" /\ \E m \in PublishMsgs, f \in FailAts : EncodeCall("Publish.Encode", m, f)

SubscribeEncode == pc = "idle" /\ \E m \in SubscribeMsgs, f \in FailAts : EncodeCall("Subscribe.Encode", m, f)

SubAckEncode == pc = "idle" /\ \E m \in SubAckMsgs, f \in FailAts : EncodeCall("SubAck.Encode", m, f)

UnsubscribeEncode ==
  pc = "idle" /\ \E m \in UnsubscribeMsgs, f \in FailAts : EncodeCall("Unsubscribe.Encode", m, f)

AckCommonEncode == pc = "idle" /\ \E m \in AckMsgs, f \in FailAts : EncodeCall("AckCommon.Encode", m, f)

EmptyEncode == pc = "idle" /\ \E m \in EmptyMsgs, f \in FailAts : EncodeCall("Empty.Encode", m, f)

\* m.Decode(r, hdr, n) on the message value m
DecodeCall(name, m, r, hdr, n) ==
  LET d == Decode(m, r, hdr, n)
  IN  /\ pc' = "done"
      /\ op' = name
      /\ in' = [msg |-> m, r |-> r, hdr |-> hdr, packetRemaining |-> n]
      /\ msg' = d.msg
      /\ source' = d.r
      /\ ret' = [err |-> d.err]
      /\ UNCHANGED <<sent, sink>>

\* Each Decode is tried on the payloads of encodable messages of its kind,
\* cut short or followed by further octets, with budgets around the payload
\* length, every header argument and every header already in the value.

PayloadHeaders == {h \in PriorHeaders : h.QosLevel < 2}

ConnectPayloads ==
  {Connect_payload(m) : m \in {c \in ConnectMsgs : c.Header = ZeroHeader /\ c.WillQos < 3}}

ConnectDecode ==
  pc = "idle" /\ \E p \in ConnectPayloads, h0 \in PriorHeaders, hdr \in PriorHeaders :
    \E r \in Sources(p), n \in Budgets(p) :
      DecodeCall("Connect.Decode", [NewMessage("Connect") EXCEPT !.Header = h0], r, hdr, n)

ConnAckPayloads == {ConnAck_payload(m) : m \in {c \in ConnAckMsgs : c.Header = ZeroHeader}}

ConnAckDecode ==
  pc = "idle" /\ \E p \in ConnAckPayloads, h0 \in PriorHeaders, hdr \in PriorHeaders :
    \E r \in Sources(p), n \in Budgets(p) :
      DecodeCall("ConnAck.Decode", [NewMessage("ConnAck") EXCEPT !.Header = h0], r, hdr, n)

PublishPayloads ==
  {Publish_payload(m) : m \in {c \in PublishMsgs : c.Header \in PayloadHeaders}}

PublishDecode ==
  pc = "idle" /\ \E p \in PublishPayloads, h0 \in PriorHeaders, hdr \in PriorHeaders :
    \E r \in Sources(p), n \in Budgets(p) :
      DecodeCall("Publish.Decode", [NewMessage("Publish") EXCEPT !.Header = h0], r, hdr, n)

SubscribePayloads ==
  {Subscribe_payload(m) : m \in {c \in SubscribeMsgs : c.Header \in PayloadHeaders
                                                      /\ Len(c.Topics) = Len(c.TopicsQos)}}

SubscribeDecode ==
  pc = "idle" /\ \E p \in SubscribePayloads, h0 \in PriorHeaders, hdr \in PriorHeaders :
    \E r \in Sources(p), n \in Budgets(p) :
      DecodeCall("Subscribe.Decode", [NewMessage("Subscribe") EXCEPT !.Header = h0], r, hdr, n)

SubAckPayloads == {SubAck_payload(m) : m \in {c \in SubAckMsgs : c.Header = ZeroHeader}}

SubAckDecode ==
  pc = "idle" /\ \E p \in SubAckPayloads, h0 \in PriorHeaders, hdr \in PriorHeaders :
    \E r \in Sources(p), n \in Budgets(p) :
      DecodeCall("SubAck.Decode", [NewMessage("SubAck") EXCEPT !.Header = h0], r, hdr, n)

UnsubscribePayloads ==
  {Unsubscribe_payload(m) : m \in {c \in UnsubscribeMsgs : c.Header \in PayloadHeaders}}

UnsubscribeDecode ==
  pc = "idle" /\ \E p \in UnsubscribePayloads, h0 \in PriorHeaders, hdr \in PriorHeaders :
    \E r \in Sources(p), n \in Budgets(p) :
      DecodeCall("Unsubscribe.Decode", [NewMessage("Unsubscribe") EXCEPT !.Header = h0],
                 r, hdr, n)

AckPayloads == {AckCommon_payload(m) : m \in {c \in AckMsgs : c.Header = ZeroHeader}}

AckCommonDecode ==
  pc = "idle" /\ \E k \in AckKinds, p \in AckPayloads, h0 \in PriorHeaders, hdr \in PriorHeaders :
    \E r \in Sources(p), n \in Budgets(p) :
      DecodeCall("AckCommon.Decode", [NewMessage(k) EXCEPT !.Header = h0], r, hdr, n)

\* hdr.Decode(r) with hdr holding h0 before the call
HeaderDecode ==
  pc = "idle" /\ \E h0 \in PriorHeaders, b \in FirstOctets, c \in ChunkStreams, cut \in BOOLEAN :
    LET r == IF cut THEN <<>> ELSE <<b>> \o c
        d == Header_Decode(h0, r)
    IN  /\ pc' = "done"
        /\ op' = "Header.Decode"
        /\ in' = [hdr |-> h0, r |-> r]
        /\ source' = d.r
        /\ ret' = [err |-> d.err, msgType |-> d.msgType,
                   remainingLength |-> d.remainingLength, hdr |-> d.hdr]
        /\ UNCHANGED <<sent, msg, sink>>

DecodeLengthCall ==
  pc = "idle" /\ \E r \in ChunkStreams :
    LET d == decodeLength(r)
    IN  /\ pc' = "done"
        /\ op' = "decodeLength"
        /\ in' = [r |-> r]
        /\ source' = d.r
        /\ ret' = [err |-> d.err, v |-> d.v]
        /\ UNCHANGED <<sent, msg, sink>>

\* DecodeRead on the octets the sink of the Encode before has accepted,
\* followed by the octets of whatever was written next
DecodeReadCall ==
  pc = "encoded" /\ \E t \in Trails :
    LET r == Flatten(sink.chunks) \o t
        d == DecodeRead(r)
    IN  /\ pc' = "done"
        /\ op' = "DecodeRead"
        /\ in' = [r |-> r]
        /\ msg' = d.msg
        /\ source' = d.r
        /\ ret' = [err |-> d.err]
        /\ UNCHANGED <<sent, sink>>

Next ==
  \/ ConnectEncode
  \/ ConnAckEncode
  \/ PublishEncode
  \/ SubscribeEncode
  \/ SubAckEncode
  \/ UnsubscribeEncode
  \/ AckCommonEncode
  \/ EmptyEncode
  \/ ConnectDecode
  \/ ConnAckDecode
  \/ PublishDecode
  \/ SubscribeDecode
  \/ SubAckDecode
  \/ UnsubscribeDecode
  \/ AckCommonDecode
  \/ HeaderDecode
  \/ DecodeLengthCall
  \/ DecodeReadCall

Spec == Init /\ [][Next]_vars

(* ------------------------------- claims ------------------------------- *)

DecodeOps == {"Connect.Decode", "ConnAck.Decode", "Publish.Decode", "Subscribe.Decode",
              "SubAck.Decode", "Unsubscribe.Decode", "AckCommon.Decode"}

\* the Encode before wrote to the sink and no write was refused
EncodeSucceeded == sink.calls > 0 /\ (sink.failAt = 0 \/ sink.failAt > sink.calls)

\* a message the codec calls valid
ValidMessage(m) ==
  /\ m.Header.QosLevel <= 2
  /\ m.kind = "Connect" => m.WillQos <= 2
  /\ m.kind = "ConnAck" => m.ReturnCode <= 5
  /\ m.kind = "Subscribe" => Len(m.Topics) = Len(m.TopicsQos)

\* equal in every field, the message identifier counting only when the QoS carries one
SameMessage(a, b) ==
  /\ a.kind = b.kind
  /\ IF a.kind \in {"Publish", "Subscribe", "Unsubscribe"} /\ ~QosLevel_HasId(a.Header.QosLevel)
       THEN [a EXCEPT !.MessageId = 0] = [b EXCEPT !.MessageId = 0]
       ELSE a = b

\* C1: decoding the octets Encode produced for a valid message yields a
\* message of the same kind with equal fields, header included.
RoundTrip_C1 ==
  (op = "DecodeRead" /\ EncodeSucceeded /\ ValidMessage(sent))
    => (ret.err = "nil" /\ SameMessage(sent, msg))

\* C2: a message with QoS 3 makes Encode return badQosError, a Connect with
\* will-QoS 3 makes it return badWillQosError, and the sink has received
\* nothing in either case.
EncodeValidation_C2 ==
  pc = "encoded" =>
    /\ (sent.kind = "Connect" /\ sent.WillQos = 3)
         => (ret.err = "badWillQosError" /\ sink.calls = 0 /\ sink.chunks = <<>>)
    /\ (sent.Header.QosLevel = 3 /\ ~(sent.kind = "Connect" /\ sent.WillQos = 3))
         => (ret.err = "badQosError" /\ sink.calls = 0 /\ sink.chunks = <<>>)

\* the octets after the remaining-length field in the test's Connect
TestConnectBody ==
  <<0, 6, 77, 81, 73, 115, 100, 112>> \o <<3, 206, 0, 10>>
  \o <<0, 8, 120, 105, 120, 105, 104, 97, 104, 97>>
  \o <<0, 5, 116, 111, 112, 105, 99>>
  \o <<0, 7, 109, 101, 115, 115, 97, 103, 101>>
  \o <<0, 4, 110, 97, 109, 101>>
  \o <<0, 3, 112, 119, 100>>

TestConnectEncoded ==
  op = "Connect.Encode" /\ sent = TestConnect(ZeroHeader) /\ sink.failAt = 0

\* C3 as stated: the test's Connect encodes to 0x10, remaining length 39,
\* then the protocol name, 03 CE 00 0A and the five text fields.
ConnectScenario39_C3 ==
  TestConnectEncoded => Flatten(sink.chunks) = <<16, 39>> \o TestConnectBody

\* C3 amended: the test's Connect encodes to 0x10, remaining length 49 (one
\* octet, 0x31), then the protocol name, 03 CE 00 0A and the length-prefixed
\* client id, will topic, will message, username and password in that order.
ConnectScenario_C3 ==
  TestConnectEncoded =>
    /\ ret.err = "nil"
    /\ Flatten(sink.chunks) = <<16, 49>> \o TestConnectBody
    /\ Len(TestConnectBody) = 49

ConnectScenarioWitness_C3 ==
  TestConnectEncoded /\ pc = "encoded" /\ ret.err = "nil" /\ Len(sink.chunks) = 2

\* number of chunks up to the first one without the continuation bit, 0 when
\* none of the first four is
TermLen(r) ==
  LET ks == {k \in 1..Min(4, Len(r)) : r[k] < 128}
  IN  IF ks = {} THEN 0 ELSE CHOOSE k \in ks : \A j \in ks : k <= j

RECURSIVE ChunkSum(_, _)
ChunkSum(c, k) ==
  IF k = 0 THEN 0 ELSE ChunkSum(c, k - 1) + ((c[k] % 128) * (128 ^ (k - 1)))

LengthTable ==
  {<< <<0>>, 0 >>, << <<127>>, 127 >>, << <<128, 1>>, 128 >>, << <<255, 127>>, 16383 >>,
   << <<128, 128, 1>>, 16384 >>, << <<255, 255, 127>>, 2097151 >>,
   << <<128, 128, 128, 1>>, 2097152 >>, << <<255, 255, 255, 127>>, 268435455 >>}

\* C4: decodeLength of a correctly terminated sequence of 1 to 4 chunks
\* returns the sum of (chunk mod 128) * 128^i, whether called directly or
\* by Header.Decode after the first octet; the eight literal cases hold.
DecodeLength_C4 ==
  /\ (op = "decodeLength" /\ TermLen(in.r) > 0)
       => (ret.err = "nil" /\ ret.v = ChunkSum(in.r, TermLen(in.r)))
  /\ (op = "Header.Decode" /\ Len(in.r) > 0 /\ TermLen(Tail(in.r)) > 0)
       => (ret.err = "nil"
           /\ ret.remainingLength = ChunkSum(Tail(in.r), TermLen(Tail(in.r))))
  /\ op = "decodeLength" => \A e \in LengthTable : in.r = e[1] => ret.v = e[2]

DecodeLengthWitness_C4 ==
  \/ op = "decodeLength" /\ in.r = <<255, 255, 255, 127>> /\ ret.v = 268435455
  \/ op = "Header.Decode" /\ in.r = <<16, 128, 128, 1>> /\ ret.remainingLength = 16384

\* the fixed header Header.Encode builds for header h, type mt and length n
FixedHeader(h, mt, n) ==
  encodeLength(n, <<(mt * 16) + (boolToByte(h.DupFlag) * 8) + (h.QosLevel * 2)
                    + boolToByte(h.Retain)>>)

\* C5 as stated: one Encode makes exactly one write on the sink, and the
\* sink never holds a message's fixed header without its payload.
SingleWrite_C5 ==
  (pc = "encoded" /\ sent.kind \notin EmptyKinds) =>
    /\ ret.err = "nil" => sink.calls = 1
    /\ sink.chunks # <<>> =>
         LET dl == decodeLength(Tail(Flatten(sink.chunks)))
         IN  dl.err = "nil" /\ Len(dl.r) = dl.v

\* C5 amended: Encode buffers the whole payload, then makes two writes on
\* the sink, the fixed header first and the payload second; the payload is
\* written only when the header write returned no error, and a validation
\* failure comes before the first write.  When the second write is refused
\* the sink holds the header without the payload.
TwoWrites_C5 ==
  (pc = "encoded" /\ sent.kind \notin EmptyKinds) =>
    /\ sink.calls \in 0..2
    /\ ret.err = "nil" =>
         /\ sink.calls = 2 /\ Len(sink.chunks) = 2
         /\ Len(sink.chunks[1]) >= 2
         /\ decodeLength(Tail(sink.chunks[1])).v = Len(sink.chunks[2])
         /\ decodeLength(Tail(sink.chunks[1])).r = <<>>
    /\ ret.err \in {"badQosError", "badWillQosError", "badMsgTypeError", "panic"}
         => sink.calls = 0 /\ sink.chunks = <<>>
    /\ (ret.err = "ioError" /\ sink.calls = 1) => sink.chunks = <<>>
    /\ (ret.err = "ioError" /\ sink.calls = 2) =>
         /\ Len(sink.chunks) = 1
         /\ sink.chunks[1] = FixedHeader(sent.Header, MsgConnect,
                                          decodeLength(Tail(sink.chunks[1])).v)
    /\ sink.failAt = 1 => sink.calls <= 1

TwoWritesWitness_C5 ==
  /\ pc = "encoded" /\ sent.kind = "Publish" /\ sent.Data # <<>>
  /\ ret.err = "ioError" /\ sink.calls = 2 /\ Len(sink.chunks) = 1

\* C6: a payload Decode that succeeds has consumed exactly its budget.
ExactBudget_C6 ==
  (op \in DecodeOps /\ ret.err = "nil")
    => Len(in.r) - Len(source) = in.packetRemaining

\* C7: a payload Decode that returns an error has changed no field of the
\* message value it was called on.
NoHalfPopulated_C7 ==
  (op \in DecodeOps /\ ret.err # "nil") => msg = in.msg

\* where the message identifier sits in the payload of the kind decoded
IdOffset == IF op = "Publish.Decode" THEN 2 + (in.r[1] * 256) + in.r[2] ELSE 0

\* C8: Publish, Subscribe and Unsubscribe Decode read the message
\* identifier exactly when the QoS of the header argument is 1 or 2.
IdFollowsHeaderArg_C8 ==
  (op \in {"Publish.Decode", "Subscribe.Decode", "Unsubscribe.Decode"} /\ ret.err = "nil")
    => IF QosLevel_HasId(in.hdr.QosLevel)
         THEN /\ Len(in.r) >= IdOffset + 2
              /\ msg.MessageId = (in.r[IdOffset + 1] * 256) + in.r[IdOffset + 2]
         ELSE msg.MessageId = in.msg.MessageId

\* C9: the first octet Encode writes is type * 16 + dup * 8 + QoS * 2 +
\* retain for the type number of the kind encoded, and Header.Decode of it
\* returns that type, dup, QoS and retain.
FirstOctet_C9 ==
  (pc = "encoded" /\ sent.Header.QosLevel <= 2 /\ sink.chunks # <<>>) =>
    LET b == sink.chunks[1][1]
        d == Header_Decode(ZeroHeader, sink.chunks[1])
    IN  /\ b = (KindType(sent.kind) * 16) + (boolToByte(sent.Header.DupFlag) * 8)
               + (sent.Header.QosLevel * 2) + boolToByte(sent.Header.Retain)
        /\ d.msgType = KindType(sent.kind)
        /\ d.hdr = sent.Header

\* C10: Subscribe.Encode ends with success or a returned error, never with
\* an uncontrolled fault, and never drops entries of the longer list.
SubscribeEncodeTotal_C10 ==
  op = "Subscribe.Encode" =>
    /\ ret.err # "panic"
    /\ ret.err = "nil" => Len(sent.Topics) = Len(sent.TopicsQos)

====
